---- MODULE Spec2Model ----
(***************************************************************************)
(* Model of the change-detection and paginated-ingestion pipeline:         *)
(*   scraper.py  _get_with_retries, fetch_articles,                        *)
(*               save_articles_as_markdown                                 *)
(*   markdown_converter.py  slugify                                        *)
(*   main.py     compute_hash, detect_article_deltas, run_scraper,         *)
(*               run_uploader, main, cleanup_articles_dir, the run loop    *)
(*   scraper.py  the main block with fetch_articles_summary (what          *)
(*               run_scraper executes)                                     *)
(*   uploader.py find_markdown_files, main (what run_uploader executes)    *)
(*                                                                         *)
(* The source API is the environment: every GET is answered by a status,   *)
(* headers and a body chosen from small sets.  In a scheduled run the      *)
(* source serves a fixed listing of articles, and every request, file      *)
(* write, content store call and unlink can fail; the process can be       *)
(* killed in the middle of a run and started again, and the listing can    *)
(* be edited between two runs.                                             *)
(***************************************************************************)
EXTENDS Integers, Sequences, FiniteSets, TLC

VARIABLES
    \* fetch_articles locals
    url, results, seen_ids, repeated_next_count, has_more, next_url,
    unique_results,
    \* _get_with_retries local
    attempt,
    \* control: where the fetch is, and the exception it raised
    pc, error,
    \* the _get_with_retries call in progress (or the one that raised): GETs
    \* answered, the last status, the last time.sleep argument, the last sleep
    \* that followed a 5xx, the Retry-After header of the last response
    gets, last_status, slept, slept_5xx, last_retry_after,
    \* the records of the pages parsed so far, in fetch order
    served, servedAll,
    \* save_articles_as_markdown: loop index, output directory, write log
    save_i, files, written,
    \* detect_article_deltas: the content root, the hash record file, locals
    articles_dir, hash_record, prev_hashes, added, updated, skipped,
    new_hashes, todo, dpc,
    \* classify, persist, classify again: the record on disk was dumped from
    \* the preceding classification, and the document rewritten since then
    recorded, rewrote,
    \* the source API behind a scheduled run: the articles it holds
    source,
    \* main.py: where main() is, the exit code of the last subprocess
    rpc, returncode,
    \* scraper.py run as a script: position, counters of its summary
    spc, request_failed, failed_saves,
    \* uploader.py run as a script: position, the files the loop has yet to
    \* take (the one in hand at the head), the attempt of the retry loop,
    \* counters of its summary
    upc, md_files, up_attempt, total_files, succeeded, failed, assigned, assign_failed,
    \* history of the current run: a GET of the scraper failed, a save of the
    \* scraper failed, files the scraper wrote, calls of run_uploader, files
    \* passed to upload_file, files uploaded and attached, hash record
    \* written, files unlinked, the hash record when the run began, the
    \* unlink calls of the cleanup in their order
    fetch_failed, save_failed, saved, uploader_calls, handed, stored, wrote,
    deleted, rec0, tried,
    \* uploader.main found a required environment variable missing or blank
    config_error,
    \* history across runs: the dirty set of the run whose upload step failed,
    \* the dirty set of the run whose write of the hash record failed;
    \* a run got every record of the source, uploaded, wrote the hash record
    \* and deleted every document, and the source is the same since
    last_failed, last_unwritten, settled,
    \* compute_hash: the path and the bytes of the file, the bytes not yet
    \* read, the bytes the hash object was updated with, the calls of f.read,
    \* the value returned, the position
    filepath, fbytes, unread, hashed, reads, hexdigest, hpc

fetchVars == <<url, results, seen_ids, repeated_next_count, has_more,
               next_url, unique_results, attempt, pc, error,
               gets, last_status, last_retry_after, slept, slept_5xx, served, servedAll>>
saveVars == <<save_i, files, written>>
deltaVars == <<articles_dir, hash_record, prev_hashes, added, updated, skipped,
               new_hashes, todo, dpc, recorded, rewrote>>
scraperVars == <<spc, request_failed, failed_saves>>
uploaderVars == <<upc, md_files, up_attempt, total_files, succeeded, failed, assigned,
                  assign_failed>>
historyVars == <<fetch_failed, save_failed, saved, uploader_calls, handed,
                 stored, wrote, deleted, rec0, tried, config_error,
                 last_failed, last_unwritten, settled>>
runVars == <<source, rpc, returncode, scraperVars, uploaderVars, historyVars>>
hashVars == <<filepath, fbytes, unread, hashed, reads, hexdigest, hpc>>
vars == <<fetchVars, saveVars, deltaVars, runVars, hashVars>>

----------------------------------------------------------------------------
(* Bounds of the model *)

\* longest "articles" list of one page
MaxPageLen == 2
\* records of parsed pages that the history `served` keeps
MaxServed == 3

(* Program constants *)

max_429_retries == 5
max_5xx_retries == 5
BackoffCap == 16
SlugMaxLen == 50

----------------------------------------------------------------------------
(* Values *)

\* Python None, also a key that is absent from a mapping
None == "None"

\* a dict with no key
EmptyMap == [n \in {} |-> ""]

\* m[k] = v on a dict
MapSet(m, k, v) == [n \in DOMAIN m \cup {k} |-> IF n = k THEN v ELSE m[n]]

\* f"{API_URL}?page[size]={PAGE_SIZE}" and the other page URLs of the source
BaseUrl == "u1"
Urls == {"u1", "u2", "u3"}

\* the elements an "articles" list is made of: one id under two titles, a
\* second id, and a record whose id is null
Articles ==
    { [id |-> "id1", title |-> <<"H", "i">>],
      [id |-> "id1", title |-> <<"Y", "o">>],
      [id |-> "id2", title |-> <<"h", "i", "!">>],
      [id |-> None, title |-> <<"Y", "o">>] }

SeqsUpTo(S, n) == UNION {[1..k -> S] : k \in 0..n}

\* status codes the source answers with
Statuses == {200, 404, 429, 503}

\* texts of a Retry-After header: seconds, a negative number, an HTTP-date
RetryAfterTexts == { <<"3">>, <<"-", "1">>, <<"W", "e", "d">> }

\* a response without a Retry-After header
NoRetryAfter == [present |-> FALSE, text |-> <<>>]

\* the Retry-After header of a response: absent, or present with a text
RetryAfterHeaders ==
    {NoRetryAfter}
        \cup {[present |-> TRUE, text |-> t] : t \in RetryAfterTexts}

\* meta.has_more of a page: the key absent, true, false
MetaHasMore == {"absent", "true", "false"}

\* bodies of a 200 response that fetch_articles rejects
BadBodies == {"not_json", "not_dict", "no_articles_list"}

----------------------------------------------------------------------------
(* Pure helpers *)

Digits == {"0", "1", "2", "3", "4", "5", "6", "7", "8", "9"}

DigitVal(c) ==
    CASE c = "0" -> 0 [] c = "1" -> 1 [] c = "2" -> 2 [] c = "3" -> 3
      [] c = "4" -> 4 [] c = "5" -> 5 [] c = "6" -> 6 [] c = "7" -> 7
      [] c = "8" -> 8 [] c = "9" -> 9

RECURSIVE DecimalVal(_)
DecimalVal(s) ==
    IF s = <<>> THEN 0
    ELSE 10 * DecimalVal(SubSeq(s, 1, Len(s) - 1)) + DigitVal(s[Len(s)])

\* Python int(str): an optional sign followed by decimal digits; anything
\* else raises ValueError
PyIntOk(s) ==
    LET body == IF s # <<>> /\ s[1] \in {"+", "-"} THEN Tail(s) ELSE s
    IN  body # <<>> /\ \A i \in 1..Len(body) : body[i] \in Digits

PyInt(s) ==
    IF s[1] = "-" THEN 0 - DecimalVal(Tail(s))
    ELSE IF s[1] = "+" THEN DecimalVal(Tail(s))
    ELSE DecimalVal(s)

\* resp.headers.get("Retry-After", "5")
RetryAfterText(h) == IF h.present THEN h.text ELSE <<"5">>

\* resp.ok
RespOk(status) == status < 400

Is5xx(status) == 500 <= status /\ status < 600

RECURSIVE Pow2(_)
Pow2(n) == IF n = 0 THEN 1 ELSE 2 * Pow2(n - 1)

\* variant: the exponent is one too large
BackoffDelayFromTwo(a) == IF a < max_5xx_retries THEN Pow2(a + 1) ELSE BackoffCap

\* delay = 2 ** attempt if attempt < max_5xx_retries else 16
BackoffDelay(a) == IF a < max_5xx_retries THEN Pow2(a) ELSE BackoffCap

\* variant: a record without an id is taken like any other
HasIdAlways(article) == TRUE

\* aid = article.get("id"); aid is not None
HasId(article) == article.id # None

\* variant: a later record with a seen id replaces the earlier one
RECURSIVE DedupIntoKeepLast(_, _, _)
DedupIntoKeepLast(res, seen, arts) ==
    IF arts = <<>> THEN [results |-> res, seen_ids |-> seen]
    ELSE LET article == Head(arts)
             aid == article.id
         IN  IF aid # None /\ aid \notin seen
             THEN DedupIntoKeepLast(Append(res, article), seen \cup {aid}, Tail(arts))
             ELSE IF aid # None
             THEN DedupIntoKeepLast(
                      [i \in 1..Len(res) |->
                          IF res[i].id = aid THEN article ELSE res[i]],
                      seen, Tail(arts))
             ELSE DedupIntoKeepLast(res, seen, Tail(arts))

\* the dedup loop over one page: results and seen_ids after it
RECURSIVE DedupInto(_, _, _)
DedupInto(res, seen, arts) ==
    IF arts = <<>> THEN [results |-> res, seen_ids |-> seen]
    ELSE LET article == Head(arts)
             aid == article.id
         IN  IF HasId(article) /\ aid \notin seen
             THEN DedupInto(Append(res, article), seen \cup {aid}, Tail(arts))
             ELSE DedupInto(res, seen, Tail(arts))

\* variant: the loop guard never fires
LoopDetectedNever(nx, u) == FALSE

\* if next_url and next_url == url
LoopDetected(nx, u) == nx # None /\ nx = u

\* variant: has_more is ignored
ShouldContinueOnNext(hm, nx) == nx # None

\* if has_more and next_url
ShouldContinue(hm, nx) == hm /\ nx # None

\* data.get("meta", {}).get("has_more", False)
HasMoreOf(meta) == meta = "true"

----------------------------------------------------------------------------
(* The fetcher: scraper.py *)

\* no sleep yet in this call
NoSleep == 0 - 1

FetchInit ==
    /\ url = BaseUrl
    /\ results = <<>>
    /\ seen_ids = {}
    /\ repeated_next_count = 0
    /\ has_more = FALSE
    /\ next_url = None
    /\ unique_results = <<>>
    /\ attempt = 0
    /\ pc = "get"
    /\ error = None
    /\ gets = 0
    /\ last_status = 0
    /\ last_retry_after = NoRetryAfter
    /\ slept = NoSleep
    /\ slept_5xx = NoSleep
    /\ served = <<>>
    /\ servedAll = TRUE

SaveInit ==
    /\ save_i = 0
    /\ files = EmptyMap
    /\ written = <<>>

\* an exception leaves _get_with_retries and fetch_articles
Raise(e) ==
    /\ pc' = "raised"
    /\ error' = e

\* variant: the attempt counter outlives the call
ReturnedKeepsAttempt ==
    /\ attempt' = attempt
    /\ gets' = 0
    /\ last_status' = 0
    /\ last_retry_after' = NoRetryAfter
    /\ slept' = NoSleep
    /\ slept_5xx' = NoSleep

\* _get_with_retries returns resp: its locals are gone, and the next call
\* starts again from attempt = 0
Returned ==
    /\ attempt' = 0
    /\ gets' = 0
    /\ last_status' = 0
    /\ last_retry_after' = NoRetryAfter
    /\ slept' = NoSleep
    /\ slept_5xx' = NoSleep

pageLocals == <<url, results, seen_ids, repeated_next_count, has_more,
                next_url, unique_results, served, servedAll>>

\* session.get raises (timeout, connection error): re-raised
GetRaises ==
    /\ pc = "get"
    /\ Raise("RequestException")
    /\ UNCHANGED <<pageLocals, attempt, gets, last_status, last_retry_after, slept, slept_5xx,
                   saveVars, deltaVars, runVars, hashVars>>

\* the source answers 429 with Retry-After header h
Resp429(h) ==
    /\ pc = "get"
    /\ gets' = gets + 1
    /\ last_status' = 429
    /\ last_retry_after' = h
    /\ LET text == RetryAfterText(h)
       IN  IF ~PyIntOk(text)
           THEN /\ Raise("ValueError")
                /\ UNCHANGED <<attempt, slept>>
           ELSE LET retry_after == PyInt(text)
                IN  /\ attempt' = attempt + 1
                    /\ IF attempt' >= max_429_retries
                       THEN /\ Raise("TooMany429")
                            /\ UNCHANGED slept
                       ELSE IF retry_after < 0
                       THEN /\ Raise("ValueError")
                            /\ UNCHANGED slept
                       ELSE /\ slept' = retry_after
                            /\ UNCHANGED <<pc, error>>
    /\ UNCHANGED <<pageLocals, slept_5xx, saveVars, deltaVars, runVars, hashVars>>

\* the source answers with a 5xx status
Resp5xx(status) ==
    /\ pc = "get"
    /\ Is5xx(status)
    /\ gets' = gets + 1
    /\ last_status' = status
    /\ last_retry_after' = NoRetryAfter
    /\ LET delay == BackoffDelay(attempt)
       IN  /\ attempt' = attempt + 1
           /\ IF attempt' >= max_5xx_retries
              THEN /\ Raise("TooMany5xx")
                   /\ UNCHANGED <<slept, slept_5xx>>
              ELSE /\ slept' = delay
                   /\ slept_5xx' = delay
                   /\ UNCHANGED <<pc, error>>
    /\ UNCHANGED <<pageLocals, saveVars, deltaVars, runVars, hashVars>>

\* variant: other error statuses are retried like a 5xx
RespOtherRetried(status) ==
    /\ pc = "get"
    /\ status # 429 /\ ~Is5xx(status) /\ ~RespOk(status)
    /\ gets' = gets + 1
    /\ last_status' = status
    /\ last_retry_after' = NoRetryAfter
    /\ attempt' = attempt + 1
    /\ IF attempt' >= max_5xx_retries
       THEN /\ Raise("HTTPError")
            /\ UNCHANGED slept
       ELSE /\ slept' = BackoffDelay(attempt)
            /\ UNCHANGED <<pc, error>>
    /\ UNCHANGED <<pageLocals, slept_5xx, saveVars, deltaVars, runVars, hashVars>>

\* any other status that is not resp.ok
RespOther(status) ==
    /\ pc = "get"
    /\ status # 429 /\ ~Is5xx(status) /\ ~RespOk(status)
    /\ gets' = gets + 1
    /\ last_status' = status
    /\ last_retry_after' = NoRetryAfter
    /\ Raise("HTTPError")
    /\ UNCHANGED <<pageLocals, attempt, slept, slept_5xx, saveVars, deltaVars, runVars, hashVars>>

\* variant: a rejected body is logged and ends pagination with a break
RespBadBodyBreaks(status, body) ==
    /\ pc = "get"
    /\ RespOk(status)
    /\ Returned
    /\ pc' = "dedupe"
    /\ error' = (CASE body = "not_json" -> "JSONError"
                   [] body = "not_dict" -> "NotADict"
                   [] body = "no_articles_list" -> "NoArticlesList")
    /\ UNCHANGED <<pageLocals, saveVars, deltaVars, runVars, hashVars>>

\* a success status whose body is rejected: resp.json() raises, the body is
\* not a dict, or data.get("articles") is not a list
RespBadBody(status, body) ==
    /\ pc = "get"
    /\ RespOk(status)
    /\ Returned
    /\ Raise(CASE body = "not_json" -> "JSONError"
               [] body = "not_dict" -> "NotADict"
               [] body = "no_articles_list" -> "NoArticlesList")
    /\ UNCHANGED <<pageLocals, saveVars, deltaVars, runVars, hashVars>>

\* a success status with a page: the body is a dict with an "articles" list,
\* which the dedup loop walks
RespPage(status, articles) ==
    /\ pc = "get"
    /\ RespOk(status)
    /\ Returned
    /\ LET d == DedupInto(results, seen_ids, articles)
       IN  /\ results' = d.results
           /\ seen_ids' = d.seen_ids
    /\ IF servedAll /\ Len(served) + Len(articles) <= MaxServed
       THEN /\ served' = served \o articles
            /\ servedAll' = TRUE
       ELSE /\ served' = <<>>
            /\ servedAll' = FALSE
    /\ pc' = "page"
    /\ UNCHANGED <<url, repeated_next_count, has_more, next_url,
                   unique_results, error, saveVars, deltaVars, runVars, hashVars>>

\* the rest of the iteration: meta.has_more and links.next of the page are
\* read, then the loop guard and the continuation test
PageEnd(meta, nx) ==
    /\ pc = "page"
    /\ has_more' = HasMoreOf(meta)
    /\ next_url' = nx
    /\ IF LoopDetected(nx, url)
       THEN /\ repeated_next_count' = repeated_next_count + 1
            /\ pc' = "dedupe"
            /\ UNCHANGED url
       ELSE /\ repeated_next_count' = 0
            /\ IF ShouldContinue(has_more', nx)
               THEN /\ url' = nx
                    /\ pc' = "get"
               ELSE /\ pc' = "dedupe"
                    /\ UNCHANGED url
    /\ UNCHANGED <<results, seen_ids, unique_results, attempt, error, gets,
                   last_status, last_retry_after, slept, slept_5xx, served, servedAll,
                   saveVars, deltaVars, runVars, hashVars>>

\* the final dedupe and the return
FinalDedupe ==
    /\ pc = "dedupe"
    /\ unique_results' = DedupInto(<<>>, {}, results).results
    /\ pc' = "returned"
    /\ UNCHANGED <<url, results, seen_ids, repeated_next_count, has_more,
                   next_url, attempt, error, gets, last_status, last_retry_after, slept,
                   slept_5xx, served, servedAll, saveVars, deltaVars, runVars, hashVars>>

----------------------------------------------------------------------------
(* Materialization: markdown_converter.slugify, save_articles_as_markdown *)

UpperLetters == <<"A", "B", "C", "D", "E", "F", "G", "H", "I", "J", "K", "L",
                  "M", "N", "O", "P", "Q", "R", "S", "T", "U", "V", "W", "X",
                  "Y", "Z">>
LowerLetters == <<"a", "b", "c", "d", "e", "f", "g", "h", "i", "j", "k", "l",
                  "m", "n", "o", "p", "q", "r", "s", "t", "u", "v", "w", "x",
                  "y", "z">>

\* str.lower() on one character
LowerChar(c) ==
    IF \E i \in 1..Len(UpperLetters) : UpperLetters[i] = c
    THEN LowerLetters[CHOOSE i \in 1..Len(UpperLetters) : UpperLetters[i] = c]
    ELSE c

\* the class [a-z0-9]
IsSlugChar(c) ==
    c \in Digits \/ \E i \in 1..Len(LowerLetters) : LowerLetters[i] = c

\* re.sub(r'[^a-z0-9]+', '_', slug): every run of other characters becomes
\* one underscore
RECURSIVE SubRuns(_, _)
SubRuns(s, out) ==
    IF s = <<>> THEN out
    ELSE IF IsSlugChar(Head(s)) THEN SubRuns(Tail(s), Append(out, Head(s)))
    ELSE IF out # <<>> /\ out[Len(out)] = "_" THEN SubRuns(Tail(s), out)
    ELSE SubRuns(Tail(s), Append(out, "_"))

\* str.strip('_')
RECURSIVE StripUnderscores(_)
StripUnderscores(s) ==
    IF s = <<>> THEN s
    ELSE IF Head(s) = "_" THEN StripUnderscores(Tail(s))
    ELSE IF s[Len(s)] = "_" THEN StripUnderscores(SubSeq(s, 1, Len(s) - 1))
    ELSE s

slugify(title) ==
    LET lowered == [i \in 1..Len(title) |-> LowerChar(title[i])]
        slug == StripUnderscores(SubRuns(lowered, <<>>))
    IN  SubSeq(slug, 1, IF Len(slug) < SlugMaxLen THEN Len(slug) ELSE SlugMaxLen)

DigitChars == <<"0", "1", "2", "3", "4", "5", "6", "7", "8", "9">>

\* str(i) of a non-negative integer
RECURSIVE IntText(_)
IntText(i) ==
    IF i < 10 THEN <<DigitChars[i + 1]>>
    ELSE Append(IntText(i \div 10), DigitChars[(i % 10) + 1])

\* f"{slug or f'article_{i}'}.md", inside output_dir
MdFilename(slug, i) ==
    (IF slug # <<>> THEN slug
     ELSE <<"a", "r", "t", "i", "c", "l", "e", "_">> \o IntText(i))
        \o <<".", "m", "d">>

\* article_to_markdown: the title as a top-level heading, then every field
article_to_markdown(article) ==
    [h1 |-> article.title,
     fields |-> <<[key |-> "id", value |-> article.id],
                  [key |-> "title", value |-> <<article.title>>]>>]

\* open(md_filename, "w").write(markdown): creates or overwrites the file
WriteFile(dir, name, content) ==
    [n \in DOMAIN dir \cup {name} |-> IF n = name THEN content ELSE dir[n]]

\* save_articles_as_markdown is called with the list fetch_articles returned
SaveStart ==
    /\ pc = "returned"
    /\ pc' = "saving"
    /\ save_i' = 0
    /\ UNCHANGED <<url, results, seen_ids, repeated_next_count, has_more,
                   next_url, unique_results, attempt, error, gets,
                   last_status, last_retry_after, slept, slept_5xx, served, servedAll,
                   files, written, deltaVars, runVars, hashVars>>

\* variant: the list is walked from its end
SaveArticleReversed ==
    /\ pc = "saving"
    /\ save_i < Len(unique_results)
    /\ LET article == unique_results[Len(unique_results) - save_i]
           slug == slugify(article.title)
           md_filename == MdFilename(slug, save_i)
       IN  /\ files' = WriteFile(files, md_filename, article_to_markdown(article))
           /\ written' = Append(written, [name |-> md_filename, article |-> article])
    /\ save_i' = save_i + 1
    /\ UNCHANGED <<fetchVars, deltaVars, runVars, hashVars>>

\* one iteration of: for i, article in enumerate(articles)
SaveArticle ==
    /\ pc = "saving"
    /\ save_i < Len(unique_results)
    /\ LET article == unique_results[save_i + 1]
           slug == slugify(article.title)
           md_filename == MdFilename(slug, save_i)
       IN  /\ files' = WriteFile(files, md_filename, article_to_markdown(article))
           /\ written' = Append(written, [name |-> md_filename, article |-> article])
    /\ save_i' = save_i + 1
    /\ UNCHANGED <<fetchVars, deltaVars, runVars, hashVars>>

SaveDone ==
    /\ pc = "saving"
    /\ save_i = Len(unique_results)
    /\ pc' = "saved"
    /\ UNCHANGED <<url, results, seen_ids, repeated_next_count, has_more,
                   next_url, unique_results, attempt, error, gets,
                   last_status, last_retry_after, slept, slept_5xx, served, servedAll,
                   saveVars, deltaVars, runVars, hashVars>>

----------------------------------------------------------------------------
(* Delta detection: main.py *)

\* names of the Markdown files the content root can hold
DocNames == {"a.md", "b.md", "c.md"}

\* byte contents of a file
Contents == {"foo", "bar", "baz"}

\* hashlib.sha256(content).hexdigest()
Sha256Hex(content) ==
    CASE content = "" ->
           "e3b0c44298fc1c149afbf4c8996fb92427ae41e4649b934ca495991b7852b855"
      [] content = "hello world" ->
           "b94d27b9934d3e08a52e52d7da7dabfac484efe37a5380ee9088f7ace2efcde9"
      [] content = "foo" ->
           "2c26b46b68ffc68ff99b453c1d30413413422d706483bfa0f98a5e886266e7ae"
      [] content = "bar" ->
           "fcde2b2edba56bf408601fb721fe9b5c338d10ee429ea04fae5511b68fbf8fb9"
      [] content = "baz" ->
           "baa5a0964d3320fbc0c6a922140453c8513ea24ab8fd0577034804a967248096"

Digests == {Sha256Hex(c) : c \in Contents}

\* the content roots: every name absent or present with one content
ContentRoots ==
    UNION {[S -> Contents] : S \in SUBSET DocNames}

\* open(HASH_RECORD, "w") before json.dump has written and closed the file:
\* the file is there and its text is empty or a prefix of the dump, which is
\* no JSON document
TruncatedRecord == [present |-> TRUE, whole |-> FALSE, map |-> EmptyMap]

\* the hash record files: absent, a JSON object name -> hex digest, or a
\* file whose writing was cut short
HashRecords ==
    {[present |-> FALSE, whole |-> TRUE, map |-> EmptyMap]}
        \cup {[present |-> TRUE, whole |-> TRUE, map |-> m] :
                 m \in UNION {[S -> Digests] : S \in SUBSET DocNames}}
        \cup {TruncatedRecord}

\* variant: the digest does not depend on the bytes
ComputeHashConstant(dir, name) == Sha256Hex("foo")

\* compute_hash: the digest of the bytes of the file
compute_hash(dir, name) == Sha256Hex(dir[name])

\* f.read(8192): the number of bytes one read asks for
ChunkSize == 8192

\* n times the byte b; a byte string is a sequence of such runs in which
\* neighbours differ and no run is empty
Run(b, n) == IF n = 0 THEN <<>> ELSE <<[b |-> b, n |-> n]>>

\* bytes + bytes
Concat(x, y) ==
    IF x = <<>> THEN y
    ELSE IF y = <<>> THEN x
    ELSE IF x[Len(x)].b = y[1].b
         THEN SubSeq(x, 1, Len(x) - 1)
                  \o <<[b |-> y[1].b, n |-> x[Len(x)].n + y[1].n]>>
                  \o Tail(y)
         ELSE x \o y

RECURSIVE BytesOf(_)
\* the byte string of a text given character by character
BytesOf(chars) ==
    IF chars = <<>> THEN <<>>
    ELSE Concat(Run(chars[1], 1), BytesOf(Tail(chars)))

RECURSIVE ByteLen(_)
\* len(bytes)
ByteLen(bytes) ==
    IF bytes = <<>> THEN 0 ELSE bytes[1].n + ByteLen(Tail(bytes))

RECURSIVE TakeBytes(_, _)
\* bytes[:k]
TakeBytes(bytes, k) ==
    IF bytes = <<>> \/ k = 0 THEN <<>>
    ELSE IF bytes[1].n <= k
         THEN Concat(<<bytes[1]>>, TakeBytes(Tail(bytes), k - bytes[1].n))
         ELSE Run(bytes[1].b, k)

RECURSIVE DropBytes(_, _)
\* bytes[k:]
DropBytes(bytes, k) ==
    IF bytes = <<>> \/ k = 0 THEN bytes
    ELSE IF bytes[1].n <= k
         THEN DropBytes(Tail(bytes), k - bytes[1].n)
         ELSE <<[b |-> bytes[1].b, n |-> bytes[1].n - k]>> \o Tail(bytes)

HelloWorld == BytesOf(<<"h", "e", "l", "l", "o", " ", "w", "o", "r", "l", "d">>)

\* the files compute_hash is run on: empty, shorter than one read, one byte
\* less and one byte more than one read, whole reads, and more
FileContents ==
    {<<>>, HelloWorld,
     BytesOf(<<"f", "o", "o">>), BytesOf(<<"b", "a", "r">>),
     BytesOf(<<"b", "a", "z">>),
     Run("a", 1), Run("b", 1),
     Run("a", ChunkSize - 1), Run("a", ChunkSize), Run("a", ChunkSize + 1),
     Run("a", 2 * ChunkSize), Run("a", 2 * ChunkSize + 1),
     Concat(Run("a", ChunkSize), Run("b", 1)),
     Concat(Run("b", 1), Run("a", ChunkSize))}

\* hashlib.sha256: the hex digest of the bytes the object was updated with
Sha256Digest(bytes) ==
    CASE bytes = <<>> ->
           "e3b0c44298fc1c149afbf4c8996fb92427ae41e4649b934ca495991b7852b855"
      [] bytes = HelloWorld ->
           "b94d27b9934d3e08a52e52d7da7dabfac484efe37a5380ee9088f7ace2efcde9"
      [] bytes = BytesOf(<<"f", "o", "o">>) ->
           "2c26b46b68ffc68ff99b453c1d30413413422d706483bfa0f98a5e886266e7ae"
      [] bytes = BytesOf(<<"b", "a", "r">>) ->
           "fcde2b2edba56bf408601fb721fe9b5c338d10ee429ea04fae5511b68fbf8fb9"
      [] bytes = BytesOf(<<"b", "a", "z">>) ->
           "baa5a0964d3320fbc0c6a922140453c8513ea24ab8fd0577034804a967248096"
      [] bytes = Run("a", 1) ->
           "ca978112ca1bbdcafac231b39a23dc4da786eff8147c4e72b9807785afee48bb"
      [] bytes = Run("b", 1) ->
           "3e23e8160039594a33894f6564e1b1348bbd7a0088d42c4acb73eeaed59c009d"
      [] bytes = Run("a", ChunkSize - 1) ->
           "d691798dcd3bab9099e84b4cbc484caef67262d1ef5dca83330d07f5ce4740dd"
      [] bytes = Run("a", ChunkSize) ->
           "dd4e6730520932767ec0a9e33fe19c4ce24399d6eba4ff62f13013c9ed30ef87"
      [] bytes = Run("a", ChunkSize + 1) ->
           "9c10c48d1f1d6618db88fde2c25409181c9201ed34ec6815d62bcf57c10d177b"
      [] bytes = Run("a", 2 * ChunkSize) ->
           "f3336bea752b5a28743033dd2c844a4a63fba08871aaee2586a2bf2d69be83a2"
      [] bytes = Run("a", 2 * ChunkSize + 1) ->
           "608b801060d579a7b659a01755259a13dec8853b97d3d8062763c97ffac6ddae"
      [] bytes = Concat(Run("a", ChunkSize), Run("b", 1)) ->
           "2882f3ef36ab1fc0ddf0c7bf1cb2ecad4723483ec3e040711dab9d0b484e9391"
      [] bytes = Concat(Run("b", 1), Run("a", ChunkSize)) ->
           "5f7f7aa37ef5f2dc4b19fc699a2a855b95bee9e1bc0baa8f18a096389b181efd"
      [] OTHER -> "a digest of bytes that are none of the above"

\* compute_hash is not running
HashIdle ==
    /\ filepath = None
    /\ fbytes = <<>>
    /\ unread = <<>>
    /\ hashed = <<>>
    /\ reads = 0
    /\ hexdigest = None
    /\ hpc = "off"

\* compute_hash(filepath) on a file of every name and content: the file is
\* open at its first byte and the hash object has been updated with nothing
HashInit ==
    /\ filepath \in DocNames
    /\ fbytes \in FileContents
    /\ unread = fbytes
    /\ hashed = <<>>
    /\ reads = 0
    /\ hexdigest = None
    /\ hpc = "loop"

\* variant: the digest is taken after the first read
HashReadOnce ==
    /\ hpc = "loop"
    /\ reads' = reads + 1
    /\ unread' = DropBytes(unread, ChunkSize)
    /\ hashed' = Concat(hashed, TakeBytes(unread, ChunkSize))
    /\ hpc' = "break"
    /\ UNCHANGED <<filepath, fbytes, hexdigest>>
    /\ UNCHANGED <<fetchVars, saveVars, deltaVars, runVars>>

\* chunk = f.read(8192); if not chunk: break; h.update(chunk)
HashRead ==
    /\ hpc = "loop"
    /\ reads' = reads + 1
    /\ unread' = DropBytes(unread, ChunkSize)
    /\ LET chunk == TakeBytes(unread, ChunkSize)
       IN  IF chunk = <<>>
           THEN /\ hpc' = "break"
                /\ UNCHANGED hashed
           ELSE /\ hashed' = Concat(hashed, chunk)
                /\ UNCHANGED hpc
    /\ UNCHANGED <<filepath, fbytes, hexdigest>>
    /\ UNCHANGED <<fetchVars, saveVars, deltaVars, runVars>>

\* return h.hexdigest()
HashReturn ==
    /\ hpc = "break"
    /\ hexdigest' = Sha256Digest(hashed)
    /\ hpc' = "done"
    /\ UNCHANGED <<filepath, fbytes, unread, hashed, reads>>
    /\ UNCHANGED <<fetchVars, saveVars, deltaVars, runVars>>

\* variant: a changed hash is taken for an unchanged one
ClassifyInverted(name, h, prev) ==
    IF name \notin DOMAIN prev THEN "added"
    ELSE IF prev[name] = h THEN "updated"
    ELSE "skipped"

\* the if / elif / else of the loop body
Classify(name, h, prev) ==
    IF name \notin DOMAIN prev THEN "added"
    ELSE IF prev[name] # h THEN "updated"
    ELSE "skipped"

DeltaIdle ==
    /\ articles_dir = EmptyMap
    /\ hash_record = [present |-> FALSE, whole |-> TRUE, map |-> EmptyMap]
    /\ prev_hashes = EmptyMap
    /\ added = <<>>
    /\ updated = <<>>
    /\ skipped = <<>>
    /\ new_hashes = EmptyMap
    /\ todo = {}
    /\ dpc = "idle"
    /\ recorded = FALSE
    /\ rewrote = None

DeltaInit ==
    /\ articles_dir \in ContentRoots
    /\ hash_record \in HashRecords
    /\ prev_hashes = EmptyMap
    /\ added = <<>>
    /\ updated = <<>>
    /\ skipped = <<>>
    /\ new_hashes = EmptyMap
    /\ todo = {}
    /\ dpc = "idle"
    /\ recorded = FALSE
    /\ rewrote = None

\* json.load(f) returns for a complete JSON document and raises
\* JSONDecodeError for any other text
JsonLoads(record) == record.present => record.whole

\* variant: the new map starts empty instead of as a copy of the prior one
DetectStartFromEmpty ==
    /\ dpc = "idle"
    /\ JsonLoads(hash_record)
    /\ prev_hashes' = IF hash_record.present THEN hash_record.map ELSE EmptyMap
    /\ added' = <<>>
    /\ updated' = <<>>
    /\ skipped' = <<>>
    /\ new_hashes' = EmptyMap
    /\ todo' = DOMAIN articles_dir
    /\ dpc' = "loop"
    /\ UNCHANGED <<articles_dir, hash_record, recorded, rewrote,
                   fetchVars, saveVars, runVars, hashVars>>

\* detect_article_deltas up to the loop: load the record, copy it
DetectStart ==
    /\ dpc = "idle"
    /\ JsonLoads(hash_record)
    /\ prev_hashes' = IF hash_record.present THEN hash_record.map ELSE EmptyMap
    /\ added' = <<>>
    /\ updated' = <<>>
    /\ skipped' = <<>>
    /\ new_hashes' = prev_hashes'
    /\ todo' = DOMAIN articles_dir
    /\ dpc' = "loop"
    /\ UNCHANGED <<articles_dir, hash_record, recorded, rewrote,
                   fetchVars, saveVars, runVars, hashVars>>

\* json.load raises on the text of the hash record file: the exception
\* leaves detect_article_deltas
DetectRaises ==
    /\ dpc = "idle"
    /\ ~JsonLoads(hash_record)
    /\ dpc' = "raised"
    /\ UNCHANGED <<articles_dir, hash_record, prev_hashes, added, updated,
                   skipped, new_hashes, todo, recorded, rewrote,
                   fetchVars, saveVars, runVars, hashVars>>

\* one iteration of: for md_file in ARTICLES_DIR.glob("*.md"), in the order
\* the directory listing happens to give
DetectFile(name) ==
    /\ dpc = "loop"
    /\ name \in todo
    /\ LET h == compute_hash(articles_dir, name)
           class == Classify(name, h, prev_hashes)
       IN  /\ added' = IF class = "added" THEN Append(added, name) ELSE added
           /\ updated' = IF class = "updated" THEN Append(updated, name) ELSE updated
           /\ skipped' = IF class = "skipped" THEN Append(skipped, name) ELSE skipped
           /\ new_hashes' = MapSet(new_hashes, name, h)
    /\ todo' = todo \ {name}
    /\ UNCHANGED <<articles_dir, hash_record, prev_hashes, dpc, recorded,
                   rewrote, fetchVars, saveVars, runVars, hashVars>>

\* return added, updated, skipped, new_hashes
DetectReturn ==
    /\ dpc = "loop"
    /\ todo = {}
    /\ dpc' = "done"
    /\ UNCHANGED <<articles_dir, hash_record, prev_hashes, added, updated,
                   skipped, new_hashes, todo, recorded, rewrote,
                   fetchVars, saveVars, runVars, hashVars>>

\* json.dump(new_hashes, f) into HASH_RECORD opened with "w": the file
\* afterwards
DumpHashes(hashes) == [present |-> TRUE, whole |-> TRUE, map |-> hashes]

\* variant: the map that was loaded is dumped back
PersistPriorHashes ==
    /\ dpc = "done"
    /\ hash_record' = DumpHashes(prev_hashes)
    /\ recorded' = TRUE
    /\ rewrote' = None
    /\ dpc' = "idle"
    /\ UNCHANGED <<articles_dir, prev_hashes, added, updated, skipped,
                   new_hashes, todo, fetchVars, saveVars, runVars, hashVars>>

\* the returned map is written to the hash record file, and
\* detect_article_deltas can be called again
PersistHashes ==
    /\ dpc = "done"
    /\ hash_record' = DumpHashes(new_hashes)
    /\ recorded' = TRUE
    /\ rewrote' = None
    /\ dpc' = "idle"
    /\ UNCHANGED <<articles_dir, prev_hashes, added, updated, skipped,
                   new_hashes, todo, fetchVars, saveVars, runVars, hashVars>>

\* between two classifications one document gets other bytes
RewriteDoc(name, content) ==
    /\ dpc = "idle"
    /\ recorded
    /\ rewrote = None
    /\ name \in DOMAIN articles_dir
    /\ content # articles_dir[name]
    /\ articles_dir' = WriteFile(articles_dir, name, content)
    /\ rewrote' = name
    /\ UNCHANGED <<hash_record, prev_hashes, added, updated, skipped,
                   new_hashes, todo, dpc, recorded, fetchVars, saveVars, runVars, hashVars>>

----------------------------------------------------------------------------
(* A scheduled run: main.py main(), with scraper.py and uploader.py run as
   scripts.  An article of the source is given with the file name and the
   Markdown text that slugify and article_to_markdown produce for it. *)

MAX_RETRIES == 3

RunArticles ==
    { [id |-> "id1", doc |-> "a.md", body |-> "foo"],
      [id |-> "id1", doc |-> "a.md", body |-> "bar"],
      [id |-> "id2", doc |-> "b.md", body |-> "foo"],
      [id |-> "id2", doc |-> "b.md", body |-> "bar"] }

\* what the source can hold, in the order of its listing: every id at most
\* once
Sources ==
    {l \in SeqsUpTo(RunArticles, 2) :
        \A i, j \in 1..Len(l) : l[i].id = l[j].id => i = j}

\* the URLs of the pages of the listing, one article a page
RunPageUrls == <<"u1", "u2", "u3">>

PageNo(u) == CHOOSE k \in 1..Len(RunPageUrls) : RunPageUrls[k] = u

\* "articles", meta.has_more and links.next of the page at u
PageArticles(src, u) ==
    IF PageNo(u) <= Len(src) THEN <<src[PageNo(u)]>> ELSE <<>>

PageHasMore(src, u) == PageNo(u) < Len(src)

PageNext(src, u) ==
    IF PageNo(u) < Len(src) THEN RunPageUrls[PageNo(u) + 1] ELSE None

\* content roots that hash records were dumped from
RunRoots == UNION {[S -> {"foo", "bar"}] : S \in SUBSET {"a.md", "b.md"}}

\* the hash record file that earlier runs left
RunHashRecords ==
    {[present |-> FALSE, whole |-> TRUE, map |-> EmptyMap]}
        \cup {[present |-> TRUE, whole |-> TRUE,
                 map |-> [n \in DOMAIN r |-> Sha256Hex(r[n])]] :
                 r \in RunRoots}

\* status codes of the source in a scheduled run
RunStatuses == {200, 503}

\* why a GET of fetch_articles_summary ends in the except branch
GetFailures == {"get_raises", "not_json", "not_dict"}

\* outcomes of upload_file followed by get_file_status
UploadOutcomes == {"raises", "not_processed", "processed"}

\* outcomes of batch_attach_files_to_vector_store
AttachOutcomes == {"raises", "in_progress", "completed"}

NoFailedRun == [set |-> FALSE, added |-> {}, updated |-> {}]

\* the elements of a list
Range(seq) == {seq[i] : i \in 1..Len(seq)}

NameRank(n) == CASE n = "a.md" -> 1 [] n = "b.md" -> 2 [] n = "c.md" -> 3

\* sorted(...) of a set of paths
RECURSIVE SortedNames(_)
SortedNames(S) ==
    IF S = {} THEN <<>>
    ELSE LET first == CHOOSE n \in S : \A o \in S : NameRank(n) <= NameRank(o)
         IN  <<first>> \o SortedNames(S \ {first})

\* find_markdown_files: every .md file of the directory, sorted
find_markdown_files(dir) == SortedNames(DOMAIN dir)

\* md_file.unlink()
Unlink(dir, name) == [n \in DOMAIN dir \ {name} |-> dir[n]]

RunLocalsInit ==
    /\ rpc = "idle"
    /\ returncode = 0
    /\ spc = "off"
    /\ request_failed = 0
    /\ failed_saves = 0
    /\ upc = "off"
    /\ md_files = <<>>
    /\ up_attempt = 1
    /\ total_files = 0
    /\ succeeded = 0
    /\ failed = 0
    /\ assigned = 0
    /\ assign_failed = 0
    /\ fetch_failed = FALSE
    /\ save_failed = FALSE
    /\ saved = {}
    /\ uploader_calls = 0
    /\ handed = {}
    /\ stored = {}
    /\ wrote = FALSE
    /\ deleted = {}
    /\ rec0 = [present |-> FALSE, whole |-> TRUE, map |-> EmptyMap]
    /\ tried = <<>>
    /\ config_error = FALSE
    /\ last_failed = NoFailedRun
    /\ last_unwritten = NoFailedRun
    /\ settled = FALSE

\* no scheduled run
RunIdle ==
    /\ source = <<>>
    /\ RunLocalsInit

\* what the first run finds on disk: an empty content root, any hash record
RunDeltaInit ==
    /\ articles_dir = EmptyMap
    /\ hash_record \in RunHashRecords
    /\ prev_hashes = EmptyMap
    /\ added = <<>>
    /\ updated = <<>>
    /\ skipped = <<>>
    /\ new_hashes = EmptyMap
    /\ todo = {}
    /\ dpc = "idle"
    /\ recorded = FALSE
    /\ rewrote = None

retryVars == <<repeated_next_count, attempt, pc, error, gets, last_status, last_retry_after,
               slept, slept_5xx, served, servedAll>>
retryRest == <<repeated_next_count, attempt, pc, error, slept, slept_5xx,
               served, servedAll>>
runHistory == <<uploader_calls, handed, stored, wrote, deleted, rec0,
                tried, config_error, last_failed, last_unwritten, settled>>
detectLocals == <<prev_hashes, added, updated, skipped, new_hashes, todo, dpc>>
harnessVars == <<recorded, rewrote, files, written>>

\* while True: main() -- main() calls run_scraper, which starts scraper.py
MainStart ==
    /\ rpc = "idle"
    /\ rpc' = "scraper"
    /\ spc' = "start"
    /\ request_failed' = 0
    /\ failed_saves' = 0
    /\ url' = BaseUrl
    /\ results' = <<>>
    /\ seen_ids' = {}
    /\ has_more' = FALSE
    /\ next_url' = None
    /\ unique_results' = <<>>
    /\ save_i' = 0
    /\ prev_hashes' = EmptyMap
    /\ added' = <<>>
    /\ updated' = <<>>
    /\ skipped' = <<>>
    /\ new_hashes' = EmptyMap
    /\ todo' = {}
    /\ dpc' = "idle"
    /\ fetch_failed' = FALSE
    /\ save_failed' = FALSE
    /\ saved' = {}
    /\ uploader_calls' = 0
    /\ handed' = {}
    /\ stored' = {}
    /\ wrote' = FALSE
    /\ deleted' = {}
    /\ rec0' = hash_record
    /\ tried' = <<>>
    /\ config_error' = FALSE
    /\ UNCHANGED <<articles_dir, hash_record, source, hashVars, returncode, uploaderVars,
                   last_failed, last_unwritten, settled, retryVars, harnessVars>>

\* the statements of scraper.py before the try block raise (an import, the
\* int() of KNOWLEDGE_BASE_PAGE_SIZE): the script ends with a traceback
ScraperModuleFails ==
    /\ spc = "start"
    /\ spc' = "exited"
    /\ returncode' = 1
    /\ UNCHANGED <<source, hashVars, rpc, request_failed, failed_saves, uploaderVars,
                   historyVars, fetchVars, saveVars, deltaVars>>

\* the main block is entered and fetch_articles_summary is called
ScraperBegin ==
    /\ spc = "start"
    /\ spc' = "fetch"
    /\ UNCHANGED <<source, hashVars, rpc, returncode, request_failed, failed_saves,
                   uploaderVars, historyVars, fetchVars, saveVars, deltaVars>>

\* the final dedupe of fetch_articles_summary, and its return
SummaryReturn(res) == DedupInto(<<>>, {}, res).results

\* one GET of fetch_articles_summary ends in the except branch: session.get
\* raised, or resp.json() raised, or the body is no dict; the loop is left
\* and the records fetched so far are returned.  The URL was sent one GET,
\* whatever the status of the response
SummaryGetFails(st, cause) ==
    /\ spc = "fetch"
    /\ request_failed' =
           IF cause = "get_raises" \/ RespOk(st) THEN request_failed + 1
           ELSE request_failed + 2
    /\ fetch_failed' = TRUE
    /\ gets' = 1
    /\ last_status' = IF cause = "get_raises" THEN 0 ELSE st
    /\ last_retry_after' = NoRetryAfter
    /\ unique_results' = SummaryReturn(results)
    /\ spc' = "save"
    /\ save_i' = 0
    /\ UNCHANGED <<source, hashVars, rpc, returncode, failed_saves, uploaderVars,
                   save_failed, saved, runHistory, url, results, seen_ids,
                   has_more, next_url, retryRest, files, written, deltaVars>>

\* the body is a dict whose "articles" is no list: the loop is left
SummaryNoList(st) ==
    /\ spc = "fetch"
    /\ request_failed' = IF RespOk(st) THEN request_failed ELSE request_failed + 1
    /\ fetch_failed' = TRUE
    /\ gets' = 1
    /\ last_status' = st
    /\ last_retry_after' = NoRetryAfter
    /\ unique_results' = SummaryReturn(results)
    /\ spc' = "save"
    /\ save_i' = 0
    /\ UNCHANGED <<source, hashVars, rpc, returncode, failed_saves, uploaderVars,
                   save_failed, saved, runHistory, url, results, seen_ids,
                   has_more, next_url, retryRest, files, written, deltaVars>>

\* one iteration of the while loop of fetch_articles_summary on the page the
\* source serves at url; has_more and next_url are read only in the
\* iteration that assigns them
SummaryPage ==
    /\ spc = "fetch"
    /\ LET d == DedupInto(results, seen_ids, PageArticles(source, url))
           hm == PageHasMore(source, url)
           nx == PageNext(source, url)
       IN  /\ results' = d.results
           /\ seen_ids' = d.seen_ids
           /\ IF ~LoopDetected(nx, url) /\ ShouldContinue(hm, nx)
              THEN /\ url' = nx
                   /\ UNCHANGED <<unique_results, spc, save_i>>
              ELSE /\ unique_results' = SummaryReturn(results')
                   /\ spc' = "save"
                   /\ save_i' = 0
                   /\ UNCHANGED url
    /\ UNCHANGED <<source, hashVars, rpc, returncode, request_failed, failed_saves,
                   uploaderVars, historyVars, has_more, next_url, retryVars,
                   files, written, deltaVars>>

\* one iteration of the save loop of the main block: the file is written, or
\* the write raises and the except branch counts it
SaveOne(ok) ==
    /\ spc = "save"
    /\ save_i < Len(unique_results)
    /\ LET article == unique_results[save_i + 1]
       IN  IF ok
           THEN /\ articles_dir' =
                       WriteFile(articles_dir, article.doc, article.body)
                /\ saved' = saved \cup {article.doc}
                /\ UNCHANGED <<failed_saves, save_failed>>
           ELSE /\ failed_saves' = failed_saves + 1
                /\ save_failed' = TRUE
                /\ UNCHANGED <<articles_dir, saved>>
    /\ save_i' = save_i + 1
    /\ UNCHANGED <<source, hashVars, rpc, returncode, spc, request_failed, uploaderVars,
                   fetch_failed, runHistory, fetchVars, files, written,
                   hash_record, detectLocals, recorded, rewrote>>

\* the summary is printed and the script ends; nothing after the try block
\* sets an exit code
ScraperExit ==
    /\ spc = "save"
    /\ save_i = Len(unique_results)
    /\ spc' = "exited"
    /\ returncode' = 0
    /\ UNCHANGED <<source, hashVars, rpc, request_failed, failed_saves, uploaderVars,
                   historyVars, fetchVars, saveVars, deltaVars>>

\* run_scraper after subprocess.run: RuntimeError on a non-zero exit code;
\* the locals of the ended script are gone
RunScraperReturns ==
    /\ rpc = "scraper"
    /\ spc = "exited"
    /\ spc' = "off"
    /\ rpc' = IF returncode # 0 THEN "crashed" ELSE "detect"
    /\ request_failed' = 0
    /\ failed_saves' = 0
    /\ url' = BaseUrl
    /\ results' = <<>>
    /\ seen_ids' = {}
    /\ unique_results' = <<>>
    /\ save_i' = 0
    /\ gets' = 0
    /\ last_status' = 0
    /\ last_retry_after' = NoRetryAfter
    /\ UNCHANGED <<source, hashVars, returncode, uploaderVars, historyVars, has_more,
                   next_url, retryRest, files, written, deltaVars>>

\* main() calls detect_article_deltas
RunDetectStart ==
    /\ rpc = "detect"
    /\ DetectStart

\* main() calls detect_article_deltas on a hash record json.load rejects
RunDetectRaises ==
    /\ rpc = "detect"
    /\ DetectRaises

\* if not (added or updated)
NothingToUpload == added = <<>> /\ updated = <<>>

\* variant: the hash record is rewritten although nothing changed
MainNoChangesRewrites ==
    /\ rpc = "detect"
    /\ dpc = "done"
    /\ NothingToUpload
    /\ rpc' = "idle"
    /\ hash_record' = DumpHashes(new_hashes)
    /\ UNCHANGED <<source, hashVars, returncode, scraperVars, uploaderVars, historyVars,
                   fetchVars, saveVars, articles_dir, detectLocals, recorded,
                   rewrote>>

\* nothing added and nothing updated: main() returns
MainNoChanges ==
    /\ rpc = "detect"
    /\ dpc = "done"
    /\ NothingToUpload
    /\ rpc' = "idle"
    /\ UNCHANGED <<source, hashVars, returncode, scraperVars, uploaderVars, historyVars,
                   fetchVars, saveVars, deltaVars>>

\* main() calls run_uploader, which starts uploader.py
RunUploaderStart ==
    /\ rpc = "detect"
    /\ dpc = "done"
    /\ ~NothingToUpload
    /\ rpc' = "uploader"
    /\ upc' = "start"
    /\ uploader_calls' = uploader_calls + 1
    /\ UNCHANGED <<source, hashVars, returncode, scraperVars, md_files, up_attempt, total_files,
                   succeeded, failed, assigned, assign_failed, fetch_failed,
                   save_failed, saved, handed, stored, wrote, deleted, rec0, tried, config_error,
                   last_failed, last_unwritten, settled, fetchVars, saveVars, deltaVars>>

\* uploader.main up to its loop: the environment check, the listing of the
\* directory, the creation of the vector store
UploaderBegin(env_ok, store_ok) ==
    /\ upc = "start"
    /\ config_error' = ~env_ok
    /\ IF ~env_ok
       THEN /\ upc' = "exited"
            /\ returncode' = 1
            /\ UNCHANGED md_files
       ELSE IF find_markdown_files(articles_dir) = <<>>
       THEN /\ upc' = "exited"
            /\ returncode' = 0
            /\ UNCHANGED md_files
       ELSE IF ~store_ok
       THEN /\ upc' = "exited"
            /\ returncode' = 1
            /\ UNCHANGED md_files
       ELSE /\ upc' = "files"
            /\ md_files' = find_markdown_files(articles_dir)
            /\ UNCHANGED returncode
    /\ up_attempt' = 1
    /\ total_files' = 0
    /\ succeeded' = 0
    /\ failed' = 0
    /\ assigned' = 0
    /\ assign_failed' = 0
    /\ UNCHANGED <<source, hashVars, rpc, scraperVars, fetch_failed, save_failed, saved,
                   uploader_calls, handed, stored, wrote, deleted, rec0, tried,
                   last_failed, last_unwritten, settled, fetchVars, saveVars, deltaVars>>

\* variant: a file whose stored status is not "processed" is attached too
UploadFileAttachesAny(outcome) ==
    /\ upc = "files"
    /\ md_files # <<>>
    /\ total_files' = IF up_attempt = 1 THEN total_files + 1 ELSE total_files
    /\ handed' = handed \cup {Head(md_files)}
    /\ CASE outcome = "processed" ->
              /\ succeeded' = succeeded + 1
              /\ upc' = "attach"
              /\ UNCHANGED <<failed, md_files, up_attempt>>
         [] outcome = "not_processed" ->
              /\ failed' = failed + 1
              /\ upc' = "attach"
              /\ UNCHANGED <<succeeded, md_files, up_attempt>>
         [] outcome = "raises" ->
              /\ IF up_attempt = MAX_RETRIES
                 THEN /\ failed' = failed + 1
                      /\ md_files' = Tail(md_files)
                      /\ up_attempt' = 1
                 ELSE /\ up_attempt' = up_attempt + 1
                      /\ UNCHANGED <<failed, md_files>>
              /\ UNCHANGED <<succeeded, upc>>
    /\ UNCHANGED <<source, hashVars, rpc, returncode, scraperVars, assigned,
                   assign_failed, fetch_failed, save_failed, saved,
                   uploader_calls, stored, wrote, deleted, rec0, tried, config_error, last_failed, last_unwritten, settled,
                   fetchVars, saveVars, deltaVars>>

\* one attempt of the retry loop for the file p at the head of md_files
UploadFile(outcome) ==
    /\ upc = "files"
    /\ md_files # <<>>
    /\ total_files' = IF up_attempt = 1 THEN total_files + 1 ELSE total_files
    /\ handed' = handed \cup {Head(md_files)}
    /\ CASE outcome = "processed" ->
              /\ succeeded' = succeeded + 1
              /\ upc' = "attach"
              /\ UNCHANGED <<failed, md_files, up_attempt>>
         [] outcome = "not_processed" ->
              /\ failed' = failed + 1
              /\ md_files' = Tail(md_files)
              /\ up_attempt' = 1
              /\ UNCHANGED <<succeeded, upc>>
         [] outcome = "raises" ->
              /\ IF up_attempt = MAX_RETRIES
                 THEN /\ failed' = failed + 1
                      /\ md_files' = Tail(md_files)
                      /\ up_attempt' = 1
                 ELSE /\ up_attempt' = up_attempt + 1
                      /\ UNCHANGED <<failed, md_files>>
              /\ UNCHANGED <<succeeded, upc>>
    /\ UNCHANGED <<source, hashVars, rpc, returncode, scraperVars, assigned,
                   assign_failed, fetch_failed, save_failed, saved,
                   uploader_calls, stored, wrote, deleted, rec0, tried, config_error, last_failed, last_unwritten, settled,
                   fetchVars, saveVars, deltaVars>>

\* if file_uploaded: the file is attached to the vector store
AttachFile(outcome) ==
    /\ upc = "attach"
    /\ IF outcome = "completed"
       THEN /\ assigned' = assigned + 1
            /\ stored' = stored \cup {Head(md_files)}
            /\ UNCHANGED assign_failed
       ELSE /\ assign_failed' = assign_failed + 1
            /\ UNCHANGED <<assigned, stored>>
    /\ md_files' = Tail(md_files)
    /\ up_attempt' = 1
    /\ UNCHANGED total_files
    /\ upc' = "files"
    /\ UNCHANGED <<source, hashVars, rpc, returncode, scraperVars, succeeded, failed,
                   fetch_failed, save_failed, saved, uploader_calls, handed,
                   wrote, deleted, rec0, tried, config_error, last_failed, last_unwritten, settled, fetchVars, saveVars,
                   deltaVars>>

\* after the loop: ensure_file_search_tool_and_attach_store, then the script
\* ends; an exception is logged and raised again
UpdateAssistant(ok) ==
    /\ upc = "files"
    /\ md_files = <<>>
    /\ upc' = "exited"
    /\ returncode' = IF ok THEN 0 ELSE 1
    /\ UNCHANGED <<source, hashVars, rpc, scraperVars, md_files, up_attempt, total_files, succeeded,
                   failed, assigned, assign_failed, historyVars, fetchVars,
                   saveVars, deltaVars>>

\* variant: the exit code of the uploader is not looked at
RunUploaderReturnsAlways ==
    /\ rpc = "uploader"
    /\ upc = "exited"
    /\ upc' = "off"
    /\ rpc' = "write"
    /\ last_failed' = NoFailedRun
    /\ last_unwritten' = NoFailedRun
    /\ md_files' = <<>>
    /\ up_attempt' = 1
    /\ total_files' = 0
    /\ succeeded' = 0
    /\ failed' = 0
    /\ assigned' = 0
    /\ assign_failed' = 0
    /\ UNCHANGED <<source, hashVars, returncode, scraperVars, fetch_failed, save_failed,
                   saved, uploader_calls, handed, stored, wrote, deleted, rec0, tried, config_error,
                   settled, fetchVars, saveVars, deltaVars>>

\* run_uploader after subprocess.run: RuntimeError on a non-zero exit code;
\* the locals of the ended script are gone
RunUploaderReturns ==
    /\ rpc = "uploader"
    /\ upc = "exited"
    /\ upc' = "off"
    /\ IF returncode # 0
       THEN /\ rpc' = "crashed"
            /\ last_failed' = [set |-> TRUE, added |-> Range(added),
                               updated |-> Range(updated)]
            /\ last_unwritten' = NoFailedRun
       ELSE /\ rpc' = "write"
            /\ last_failed' = NoFailedRun
            /\ last_unwritten' = NoFailedRun
    /\ md_files' = <<>>
    /\ up_attempt' = 1
    /\ total_files' = 0
    /\ succeeded' = 0
    /\ failed' = 0
    /\ assigned' = 0
    /\ assign_failed' = 0
    /\ UNCHANGED <<source, hashVars, returncode, scraperVars, fetch_failed, save_failed,
                   saved, uploader_calls, handed, stored, wrote, deleted, rec0, tried, config_error,
                   settled, fetchVars, saveVars, deltaVars>>

\* json.load raised in detect_article_deltas: the exception leaves main()
MainDetectRaised ==
    /\ rpc = "detect"
    /\ dpc = "raised"
    /\ rpc' = "crashed"
    /\ UNCHANGED <<source, hashVars, returncode, scraperVars, uploaderVars, historyVars,
                   fetchVars, saveVars, deltaVars>>

\* step 4 of main(), open(HASH_RECORD, "w"): the file is created or cut to
\* length 0, or open raises and the exception leaves main()
OpenHashRecord(ok) ==
    /\ rpc = "write"
    /\ IF ok
       THEN /\ hash_record' = TruncatedRecord
            /\ rpc' = "dump"
            /\ UNCHANGED last_unwritten
       ELSE /\ rpc' = "crashed"
            /\ last_unwritten' = [set |-> TRUE, added |-> Range(added),
                                  updated |-> Range(updated)]
            /\ UNCHANGED hash_record
    /\ UNCHANGED <<source, hashVars, returncode, scraperVars, uploaderVars,
                   fetch_failed, save_failed, saved, uploader_calls, handed,
                   stored, wrote, deleted, rec0, tried, config_error,
                   last_failed, settled, fetchVars, saveVars, articles_dir,
                   detectLocals, recorded, rewrote>>

\* json.dump(new_hashes, f) and the close of the file: the text is complete
\* once both are through, and cleanup_articles_dir lists the directory; or a
\* write raises and the exception leaves main()
WriteHashRecord(ok) ==
    /\ rpc = "dump"
    /\ IF ok
       THEN /\ hash_record' = DumpHashes(new_hashes)
            /\ wrote' = TRUE
            /\ rpc' = "cleanup"
            /\ todo' = DOMAIN articles_dir
            /\ UNCHANGED last_unwritten
       ELSE /\ rpc' = "crashed"
            /\ last_unwritten' = [set |-> TRUE, added |-> Range(added),
                                  updated |-> Range(updated)]
            /\ UNCHANGED <<hash_record, wrote, todo>>
    /\ UNCHANGED <<source, hashVars, returncode, scraperVars, uploaderVars, fetch_failed,
                   save_failed, saved, uploader_calls, handed, stored, deleted,
                   rec0, tried, config_error, last_failed, settled, fetchVars, saveVars, articles_dir,
                   prev_hashes, added, updated, skipped, new_hashes, dpc,
                   recorded, rewrote>>

\* variant: a failed unlink ends the loop and main()
CleanupFileAborts(name, ok) ==
    /\ rpc = "cleanup"
    /\ name \in todo
    /\ IF ok
       THEN /\ articles_dir' = Unlink(articles_dir, name)
            /\ deleted' = deleted \cup {name}
            /\ UNCHANGED rpc
       ELSE /\ rpc' = "crashed"
            /\ UNCHANGED <<articles_dir, deleted>>
    /\ tried' = Append(tried, name)
    /\ todo' = todo \ {name}
    /\ UNCHANGED <<source, hashVars, returncode, scraperVars, uploaderVars,
                   fetch_failed, save_failed, saved, uploader_calls, handed,
                   stored, wrote, rec0, config_error, last_failed, last_unwritten, settled,
                   fetchVars, saveVars,
                   hash_record, prev_hashes, added, updated, skipped,
                   new_hashes, dpc, recorded, rewrote>>

\* one iteration of cleanup_articles_dir: unlink, or the exception is printed
CleanupFile(name, ok) ==
    /\ rpc = "cleanup"
    /\ name \in todo
    /\ IF ok
       THEN /\ articles_dir' = Unlink(articles_dir, name)
            /\ deleted' = deleted \cup {name}
       ELSE UNCHANGED <<articles_dir, deleted>>
    /\ tried' = Append(tried, name)
    /\ todo' = todo \ {name}
    /\ UNCHANGED <<source, hashVars, rpc, returncode, scraperVars, uploaderVars,
                   fetch_failed, save_failed, saved, uploader_calls, handed,
                   stored, wrote, rec0, config_error, last_failed, last_unwritten, settled,
                   fetchVars, saveVars,
                   hash_record, prev_hashes, added, updated, skipped,
                   new_hashes, dpc, recorded, rewrote>>

\* cleanup_articles_dir and main() return
CleanupDone ==
    /\ rpc = "cleanup"
    /\ todo = {}
    /\ rpc' = "idle"
    /\ settled' = (~fetch_failed /\ Range(tried) = deleted)
    /\ UNCHANGED <<source, hashVars, returncode, scraperVars, uploaderVars, fetch_failed,
                   save_failed, saved, uploader_calls, handed, stored, wrote,
                   deleted, rec0, tried, config_error, last_failed, last_unwritten, fetchVars, saveVars,
                   deltaVars>>

\* between two runs the articles of the source are edited, added or removed
SourceChanges ==
    /\ rpc = "idle"
    /\ source' \in Sources \ {source}
    /\ settled' = FALSE
    /\ last_unwritten' = NoFailedRun
    /\ UNCHANGED <<hashVars, rpc, returncode, scraperVars, uploaderVars, fetch_failed,
                   save_failed, saved, uploader_calls, handed, stored, wrote,
                   deleted, rec0, tried, config_error, last_failed, fetchVars, saveVars,
                   deltaVars>>

\* the process of main.py is gone: its locals and the history of its run
ProcessGone ==
    /\ prev_hashes' = EmptyMap
    /\ added' = <<>>
    /\ updated' = <<>>
    /\ skipped' = <<>>
    /\ new_hashes' = EmptyMap
    /\ todo' = {}
    /\ dpc' = "idle"
    /\ fetch_failed' = FALSE
    /\ save_failed' = FALSE
    /\ saved' = {}
    /\ uploader_calls' = 0
    /\ handed' = {}
    /\ stored' = {}
    /\ wrote' = FALSE
    /\ deleted' = {}
    /\ rec0' = hash_record
    /\ tried' = <<>>
    /\ config_error' = FALSE

\* main.py and the script it runs are killed in the middle of a run; the
\* files stay as they are at that moment
Kill ==
    /\ rpc \in {"scraper", "detect", "uploader", "write", "dump", "cleanup"}
    /\ rpc' = "killed"
    /\ spc' = "off"
    /\ request_failed' = 0
    /\ failed_saves' = 0
    /\ url' = BaseUrl
    /\ results' = <<>>
    /\ seen_ids' = {}
    /\ unique_results' = <<>>
    /\ save_i' = 0
    /\ upc' = "off"
    /\ md_files' = <<>>
    /\ up_attempt' = 1
    /\ total_files' = 0
    /\ succeeded' = 0
    /\ failed' = 0
    /\ assigned' = 0
    /\ assign_failed' = 0
    /\ gets' = 0
    /\ last_status' = 0
    /\ last_retry_after' = NoRetryAfter
    /\ ProcessGone
    /\ UNCHANGED <<source, hashVars, returncode, last_failed, last_unwritten, settled, has_more, next_url,
                   retryRest, files, written, articles_dir, hash_record,
                   recorded, rewrote>>

\* the exception left main() and ended the process, or the process was
\* killed; main.py is started again on the same directory
Relaunch ==
    /\ rpc \in {"crashed", "killed"}
    /\ rpc' = "idle"
    /\ ProcessGone
    /\ UNCHANGED <<source, hashVars, returncode, scraperVars, uploaderVars, last_failed, last_unwritten, settled,
                   fetchVars, saveVars, articles_dir, hash_record, recorded,
                   rewrote>>

----------------------------------------------------------------------------
(* Specifications *)

Init == FetchInit /\ SaveInit /\ DeltaIdle /\ RunIdle /\ HashIdle

Next ==
    \/ GetRaises
    \/ \E h \in RetryAfterHeaders : Resp429(h)
    \/ \E st \in Statuses : Resp5xx(st)
    \/ \E st \in Statuses : RespOther(st)
    \/ \E st \in Statuses, body \in BadBodies : RespBadBody(st, body)
    \/ \E st \in Statuses, articles \in SeqsUpTo(Articles, MaxPageLen) :
            RespPage(st, articles)
    \/ \E meta \in MetaHasMore, nx \in Urls \cup {None} : PageEnd(meta, nx)
    \/ FinalDedupe
    \/ SaveStart
    \/ SaveArticle
    \/ SaveDone

Spec == Init /\ [][Next]_vars

DeltaNext ==
    \/ DetectStart
    \/ DetectRaises
    \/ \E name \in DocNames : DetectFile(name)
    \/ DetectReturn
    \/ PersistHashes
    \/ \E name \in DocNames, content \in Contents : RewriteDoc(name, content)

\* detect_article_deltas on every content root and every hash record file
DeltaSpecInit == FetchInit /\ SaveInit /\ DeltaInit /\ RunIdle /\ HashIdle

DeltaSpec == DeltaSpecInit /\ [][DeltaNext]_vars

\* the fetcher runs on one thread and takes its next step whenever it has one
FairSpec == Spec /\ WF_vars(Next)

RunNext ==
    \/ MainStart
    \/ ScraperModuleFails
    \/ ScraperBegin
    \/ \E st \in RunStatuses, cause \in GetFailures : SummaryGetFails(st, cause)
    \/ \E st \in RunStatuses : SummaryNoList(st)
    \/ SummaryPage
    \/ \E ok \in BOOLEAN : SaveOne(ok)
    \/ ScraperExit
    \/ RunScraperReturns
    \/ RunDetectStart
    \/ RunDetectRaises
    \/ \E name \in DocNames : DetectFile(name)
    \/ DetectReturn
    \/ MainNoChanges
    \/ RunUploaderStart
    \/ \E env_ok \in BOOLEAN, store_ok \in BOOLEAN : UploaderBegin(env_ok, store_ok)
    \/ \E outcome \in UploadOutcomes : UploadFile(outcome)
    \/ \E outcome \in AttachOutcomes : AttachFile(outcome)
    \/ \E ok \in BOOLEAN : UpdateAssistant(ok)
    \/ RunUploaderReturns
    \/ MainDetectRaised
    \/ \E ok \in BOOLEAN : OpenHashRecord(ok)
    \/ \E ok \in BOOLEAN : WriteHashRecord(ok)
    \/ \E name \in DocNames, ok \in BOOLEAN : CleanupFile(name, ok)
    \/ CleanupDone
    \/ Kill
    \/ Relaunch

\* scheduled runs of main.py on every source, content root and hash record
RunInit ==
    /\ FetchInit
    /\ SaveInit
    /\ RunDeltaInit
    /\ source \in Sources
    /\ RunLocalsInit
    /\ HashIdle

RunSpec == RunInit /\ [][RunNext]_vars

\* scheduled runs on a source that is edited between them
EditNext ==
    \/ RunNext
    \/ SourceChanges

EditSpec == RunInit /\ [][EditNext]_vars

HashNext ==
    \/ HashRead
    \/ HashReturn

\* compute_hash on every file
HashSpecInit == FetchInit /\ SaveInit /\ DeltaIdle /\ RunIdle /\ HashInit

HashSpec == HashSpecInit /\ [][HashNext]_vars

----------------------------------------------------------------------------
(* What the claims speak about *)

\* fetch_articles has returned its list
HasReturned == pc \in {"returned", "saving", "saved"}

\* the step ends the iteration of a parsed page
PageStep == pc = "page"

\* positions of `s` that hold the first occurrence of a non-null id
FirstIdx(s) ==
    {i \in 1..Len(s) : s[i].id # None /\ \A j \in 1..(i - 1) : s[j].id # s[i].id}

\* the k-th smallest element of a set of numbers
Nth(S, k) == CHOOSE i \in S : Cardinality({j \in S : j < i}) = k - 1

\* r lists exactly the first occurrences of s, in the order of s
IsFirstOccurrences(r, s) ==
    /\ Len(r) = Cardinality(FirstIdx(s))
    /\ \A k \in 1..Len(r) : r[k] = s[Nth(FirstIdx(s), k)]

\* C1: the returned list holds each record id at most once, and the record
\* returned for an id is the one of its first occurrence in fetch order.
C1_DedupFirstOccurrence ==
    HasReturned =>
        /\ \A i, j \in 1..Len(unique_results) :
               i # j => unique_results[i].id # unique_results[j].id
        /\ servedAll =>
               \A i \in 1..Len(unique_results) :
                   \E k \in FirstIdx(served) : unique_results[i] = served[k]

\* an id was served twice with different records, and the fetch returned
C1_Witness ==
    /\ pc = "returned"
    /\ servedAll
    /\ \E j, k \in 1..Len(served) :
           /\ j < k
           /\ served[j].id = served[k].id
           /\ served[j].id # None
           /\ served[j] # served[k]
           /\ served[j] = unique_results[1]

\* C2: when the "next" link of a page equals the URL the page was fetched
\* from, the fetch stops paginating without raising, whatever has_more is, and
\* returns all records collected up to and including that page.
C2_LoopGuardStops ==
    [][ /\ (PageStep /\ next_url' # None /\ next_url' = url) =>
               /\ pc' = "dedupe"
               /\ error' = None
               /\ url' = url
               /\ servedAll' => IsFirstOccurrences(results', served')
        /\ pc = "dedupe" =>
               /\ pc' = "returned"
               /\ error' = None
               /\ unique_results' = results
        /\ HasReturned => (HasReturned' /\ url' = url /\ gets' = gets)
      ]_vars

\* the guard fired on a second page with has_more true, and the fetch returned
\* records of both pages
C2_Witness ==
    /\ pc = "returned"
    /\ repeated_next_count = 1
    /\ has_more
    /\ url = "u2"
    /\ next_url = url
    /\ servedAll
    /\ Len(unique_results) = 2

\* C3: fetch_articles terminates (returns or raises) on every source with
\* finitely many page URLs, also when the "next" links form a cycle of two or
\* more pages with has_more true on every page.
C3_Terminates == <>(pc \notin {"get", "page", "dedupe"})

\* every response so far in this _get_with_retries call was a 429
Only429s == gets >= 1 /\ last_status = 429 /\ slept_5xx = NoSleep

\* C4: against a source that answers every GET with 429 the fetch fails after
\* exactly 5 GETs: not on the 1st to 4th response, and there is no 6th request.
C4_FailsAfterExactlyFive ==
    Only429s => (gets <= max_429_retries /\ (pc = "raised" <=> gets = max_429_retries))

\* the step received a 5xx response and slept before the next GET
Sleep5xxStep ==
    pc = "get" /\ pc' = "get" /\ gets' = gets + 1 /\ Is5xx(last_status')

\* the step received a 429 or 5xx response
RetryableStep ==
    pc = "get" /\ gets' = gets + 1 /\ (last_status' = 429 \/ Is5xx(last_status'))

\* C5 as stated: the sleep after the first 5xx response is 1 second, the sleep
\* after each later 5xx is double the sleep after the previous 5xx, no 5xx
\* sleep exceeds 16 seconds, and the request fails at the retry ceiling of 5.
C5_Original ==
    [][ /\ Sleep5xxStep =>
               /\ slept' = IF slept_5xx = NoSleep THEN 1 ELSE 2 * slept_5xx
               /\ slept' <= BackoffCap
        /\ (RetryableStep /\ gets' >= max_5xx_retries) => pc' = "raised"
      ]_vars

\* C5 amended: the sleep after a 5xx response is 2^k seconds, k the number of
\* retryable responses (429 or 5xx) received before it in the same call: 1
\* second when the 5xx is the first retryable response, doubled by every
\* further retryable response of either kind; no 5xx sleep exceeds 16 seconds;
\* the request fails on the 5th retryable response.
C5_BackoffByAttempt ==
    [][ /\ Sleep5xxStep =>
               /\ slept' = <<1, 2, 4, 8>>[gets + 1]
               /\ slept_5xx' = slept'
               /\ slept' <= BackoffCap
        /\ (RetryableStep /\ gets' >= max_5xx_retries) => pc' = "raised"
      ]_vars

\* a 5xx response came fourth in a call and was followed by a sleep of 8 s
C5_Witness ==
    /\ pc = "get"
    /\ gets = 4
    /\ slept_5xx = 8
    /\ slept = 8

\* the step received a status that is neither success, 429 nor 5xx
OtherStatusStep ==
    /\ pc = "get"
    /\ gets' = gets + 1
    /\ last_status' >= 400
    /\ last_status' # 429
    /\ ~(500 <= last_status' /\ last_status' < 600)

\* C6: a non-success status that is neither 429 nor 5xx makes the fetch fail
\* on that response: no sleep follows it, and no further GET is issued for
\* this URL or a later page.
C6_OtherStatusFailsAtOnce ==
    [][ /\ OtherStatusStep =>
               /\ pc' = "raised"
               /\ error' = "HTTPError"
               /\ slept' = slept
               /\ url' = url
        /\ pc = "raised" => (pc' = "raised" /\ gets' = gets /\ url' = url)
      ]_vars

\* a 404 arrived on a second page after two retried responses
C6_Witness ==
    /\ pc = "raised"
    /\ error = "HTTPError"
    /\ last_status = 404
    /\ gets = 3
    /\ url = "u2"

MalformedErrors == {"JSONError", "NotADict", "NoArticlesList"}

\* C7: a page whose body cannot be parsed, is not a mapping, or has no list
\* under "articles" makes fetch_articles fail with an error and return
\* nothing, also after earlier pages were fetched and parsed.
C7_MalformedPageFails ==
    error \in MalformedErrors =>
        /\ pc = "raised"
        /\ unique_results = <<>>
        /\ written = <<>>
        /\ DOMAIN files = {}

\* the second page had no "articles" list, the first had given two records
C7_Witness ==
    /\ pc = "raised"
    /\ error = "NoArticlesList"
    /\ url = "u2"
    /\ Len(results) = 2

\* C8: after a page that does not trigger the loop guard, the "next" URL is
\* requested iff has_more is true and "next" is present; otherwise the fetch
\* stops and returns, and no further page is requested.
C8_ContinueIffHasMoreAndNext ==
    [][ /\ (PageStep /\ ~(next_url' # None /\ next_url' = url)) =>
               IF has_more' /\ next_url' # None
               THEN pc' = "get" /\ url' = next_url' /\ error' = None
               ELSE pc' = "dedupe" /\ url' = url /\ error' = None
        /\ (pc = "dedupe" \/ HasReturned) =>
               (pc' # "get" /\ pc' # "raised" /\ url' = url /\ gets' = gets)
      ]_vars

\* the fetch went on to the second page and stopped there because "next" was
\* absent although has_more was true
C8_Witness ==
    /\ pc = "returned"
    /\ url = "u2"
    /\ has_more
    /\ next_url = None
    /\ repeated_next_count = 0

\* C9: the returned list is ordered by first occurrence in fetch sequence,
\* and save_articles_as_markdown writes the documents in that order.
C9_FetchOrderKept ==
    /\ (HasReturned /\ servedAll) => IsFirstOccurrences(unique_results, served)
    /\ pc \in {"saving", "saved"} =>
           /\ Len(written) = save_i
           /\ save_i <= Len(unique_results)
           /\ \A k \in 1..Len(written) : written[k].article = unique_results[k]
    /\ pc = "saved" => Len(written) = Len(unique_results)
    /\ pc \notin {"saving", "saved"} => written = <<>>

\* two records with different ids were returned out of three served, and both
\* documents were written
C9_Witness ==
    /\ pc = "saved"
    /\ servedAll
    /\ Len(served) = 3
    /\ Len(written) = 2
    /\ written[1].article.id = "id2"
    /\ written[2].article.id = "id1"

\* the sequence holds x exactly once
OnceIn(seq, x) == Cardinality({i \in 1..Len(seq) : seq[i] = x}) = 1

NotIn(seq, x) == \A i \in 1..Len(seq) : seq[i] # x

\* the map of the hash record file as a run loads it
PriorMap == IF hash_record.present THEN hash_record.map ELSE EmptyMap

\* C10: detect_article_deltas puts every document of the content root in
\* exactly one of added, updated, skipped: added iff its name is no key of the
\* prior map, updated iff it is a key and the stored hash differs from the
\* computed one, skipped iff it is a key with an equal hash; with an absent or
\* empty prior map every document is added.
C10_ExactlyOneClass ==
    dpc = "done" =>
        /\ \A name \in DOMAIN articles_dir :
               LET h == Sha256Hex(articles_dir[name])
                   isAdded == name \notin DOMAIN PriorMap
                   isUpdated == name \in DOMAIN PriorMap /\ PriorMap[name] # h
                   isSkipped == name \in DOMAIN PriorMap /\ PriorMap[name] = h
               IN  /\ IF isAdded THEN OnceIn(added, name) ELSE NotIn(added, name)
                   /\ IF isUpdated THEN OnceIn(updated, name) ELSE NotIn(updated, name)
                   /\ IF isSkipped THEN OnceIn(skipped, name) ELSE NotIn(skipped, name)
        /\ Len(added) + Len(updated) + Len(skipped) = Cardinality(DOMAIN articles_dir)
        /\ DOMAIN PriorMap = {} =>
               (Len(added) = Cardinality(DOMAIN articles_dir)
                    /\ updated = <<>> /\ skipped = <<>>)

\* three documents, one of each class
C10_Witness ==
    /\ dpc = "done"
    /\ Len(added) = 1
    /\ Len(updated) = 1
    /\ Len(skipped) = 1

\* C11: the new hash map returned by detect_article_deltas is the prior map
\* overridden, for every document of the content root, by name -> freshly
\* computed hash; a key whose document is gone keeps its old hash, and no
\* other key is added or removed.
C11_NewMapIsPriorOverridden ==
    dpc = "done" =>
        /\ DOMAIN new_hashes = DOMAIN PriorMap \cup DOMAIN articles_dir
        /\ \A name \in DOMAIN new_hashes :
               new_hashes[name] =
                   IF name \in DOMAIN articles_dir
                   THEN Sha256Hex(articles_dir[name])
                   ELSE PriorMap[name]

\* a key of a vanished document is kept, a stored hash is overridden by a
\* different one, and a new key is added
C11_Witness ==
    /\ dpc = "done"
    /\ \E name \in DOMAIN PriorMap : name \notin DOMAIN articles_dir
    /\ \E name \in DOMAIN PriorMap \cap DOMAIN articles_dir :
           new_hashes[name] # PriorMap[name]
    /\ \E name \in DOMAIN articles_dir : name \notin DOMAIN PriorMap

\* C12: classification is idempotent: classifying the same unchanged
\* documents again, with the hash map the first classification produced as
\* the record, gives no added, no updated, and every document skipped.
C12_ReclassifyAllSkipped ==
    (dpc = "done" /\ recorded /\ rewrote = None) =>
        /\ added = <<>>
        /\ updated = <<>>
        /\ \A name \in DOMAIN articles_dir : OnceIn(skipped, name)
        /\ Len(skipped) = Cardinality(DOMAIN articles_dir)

\* the second classification of three documents, next to a key whose
\* document is gone
C12_Witness ==
    /\ dpc = "done"
    /\ recorded
    /\ rewrote = None
    /\ Len(skipped) = 3
    /\ prev_hashes = new_hashes

\* C13: with a hash map recorded from the exact contents of the documents,
\* rewriting one document D to different bytes makes the next classification
\* return added = [], updated = [D], skipped = every other document.
C13_RewrittenDocIsUpdated ==
    (dpc = "done" /\ recorded /\ rewrote # None) =>
        /\ added = <<>>
        /\ updated = <<rewrote>>
        /\ \A name \in DOMAIN articles_dir \ {rewrote} : OnceIn(skipped, name)
        /\ Len(skipped) = Cardinality(DOMAIN articles_dir) - 1

\* a.md "foo" and b.md "bar" were recorded, then a.md was rewritten to "baz"
C13_Witness ==
    /\ dpc = "done"
    /\ recorded
    /\ rewrote = "a.md"
    /\ DOMAIN articles_dir = {"a.md", "b.md"}
    /\ articles_dir["a.md"] = "baz"
    /\ articles_dir["b.md"] = "bar"
    /\ prev_hashes["a.md"] = Sha256Hex("foo")
    /\ updated = <<"a.md">>
    /\ skipped = <<"b.md">>

\* the names detect_article_deltas put in added or updated
DirtySet == Range(added) \cup Range(updated)

\* C14: when the classification of a run has no added and no updated
\* document, the run ends without invoking the uploader, the hash record file
\* is left as it was (not rewritten), and no document is deleted from the
\* content root.
C14_NothingDirtyTouchesNothing ==
    (dpc = "done" /\ NothingToUpload) =>
        /\ rpc \in {"detect", "idle"}
        /\ uploader_calls = 0
        /\ ~wrote
        /\ hash_record = rec0
        /\ deleted = {}
        /\ DOMAIN articles_dir = Range(skipped)

\* a run over two unchanged documents has returned
C14_Witness ==
    /\ rpc = "idle"
    /\ dpc = "done"
    /\ NothingToUpload
    /\ Len(skipped) = 2
    /\ DOMAIN articles_dir = {"a.md", "b.md"}
    /\ hash_record.present

\* C15: in a run whose dirty set is not empty, the documents handed to the
\* content store are exactly the added and the updated ones; no document
\* classified as skipped is uploaded.
C15_OnlyDirtySetUploaded ==
    /\ handed \subseteq DirtySet
    /\ (rpc = "uploader" /\ upc = "exited" /\ returncode = 0) =>
           DirtySet \subseteq handed

\* main() leaves the uploader with an exit code of 0 and goes on
UploaderSucceeded ==
    rpc = "uploader" /\ upc = "exited" /\ returncode = 0

\* C16: in every run with a non-empty dirty set the order is upload, then
\* hash-record write, then cleanup: the uploader is invoked exactly once, the
\* hash record is written only after the uploader reported success, documents
\* are deleted only after the hash record was written, and the keys of the
\* written record are the prior keys plus the names of all current documents.
C16_UploadThenWriteThenCleanup ==
    [][ /\ uploader_calls' <= 1
        /\ (rpc # "write" /\ rpc' = "write") =>
               (UploaderSucceeded /\ uploader_calls = 1 /\ ~wrote)
        /\ hash_record' # hash_record =>
               /\ rpc \in {"write", "dump"}
               /\ uploader_calls = 1
               /\ returncode = 0
               /\ deleted = {}
        /\ (wrote' /\ ~wrote) =>
               /\ rpc = "dump"
               /\ hash_record'.present
               /\ hash_record'.whole
               /\ DOMAIN hash_record'.map =
                      DOMAIN (IF rec0.present THEN rec0.map ELSE EmptyMap)
                          \cup DOMAIN articles_dir
        /\ (\E name \in DOMAIN articles_dir : name \notin DOMAIN articles_dir') =>
               (wrote /\ rpc = "cleanup")
        /\ (rpc \notin {"idle", "crashed", "killed"} /\ rpc' = "idle"
                /\ ~NothingToUpload) =>
               (uploader_calls = 1 /\ wrote /\ rpc = "cleanup")
      ]_vars

\* one upload, then a record with exactly two entries, then both documents
\* removed
C16_Witness ==
    /\ rpc = "idle"
    /\ uploader_calls = 1
    /\ wrote
    /\ ~rec0.present
    /\ DOMAIN hash_record.map = {"a.md", "b.md"}
    /\ deleted = {"a.md", "b.md"}
    /\ articles_dir = EmptyMap

\* C17: when the upload step fails the run ends failed with the hash record
\* file unchanged and every document still in the content root, and (the
\* source being unchanged) the next run computes the same added and updated
\* sets as the failed run and attempts the upload again.
C17_UploadFailureIsRetried ==
    /\ (uploader_calls = 1 /\ upc = "off" /\ returncode # 0 /\ dpc = "done") =>
           /\ rpc = "crashed"
           /\ ~wrote
           /\ hash_record = rec0
           /\ deleted = {}
           /\ DOMAIN articles_dir = DirtySet \cup Range(skipped)
    /\ (last_failed.set /\ dpc = "done") =>
           /\ Range(added) = last_failed.added
           /\ Range(updated) = last_failed.updated
           /\ rpc # "detect" => uploader_calls = 1

\* C18: any failure of a content store operation during the upload step (an
\* upload that still fails after its retries, a stored status other than
\* "processed", a failed attach, a failed assistant update) makes the run end
\* failed with the hash record unchanged; the hash record is never updated in
\* a run in which some document was not uploaded and attached.
C18_StoreFailureFailsRun ==
    /\ (upc = "exited" /\ (failed > 0 \/ assign_failed > 0)) => returncode # 0
    /\ wrote => DirtySet \subseteq stored

\* C19: when fetching fails in a scheduled run (a page request fails or
\* returns a malformed body) the run ends failed before delta detection: no
\* document is written to or removed from the content root, the uploader is
\* not invoked, and the hash record is unchanged.
C19_FetchFailureFailsRun ==
    fetch_failed =>
        /\ rpc \in {"scraper", "crashed"}
        /\ dpc = "idle"
        /\ saved = {}
        /\ deleted = {}
        /\ uploader_calls = 0
        /\ hash_record = rec0

\* C20: when writing a document to the content root fails during
\* materialization in a scheduled run, the run ends failed: delta detection,
\* upload, hash-record write and cleanup do not happen in that run.
C20_SaveFailureFailsRun ==
    save_failed =>
        /\ rpc \in {"scraper", "crashed"}
        /\ dpc = "idle"
        /\ uploader_calls = 0
        /\ ~wrote
        /\ deleted = {}

\* C21: the hash record is replaced atomically: at every point of the
\* hash-record step at which the process can be killed or the write can fail,
\* the file holds the complete prior map or the complete new map, and no run
\* ever loads a record that json.load rejects.
C21_RecordReplacedAtomically ==
    /\ hash_record.present => hash_record.whole
    /\ rpc \in {"write", "dump"} =>
           hash_record \in {rec0, DumpHashes(new_hashes)}
    /\ dpc # "raised"

\* C22: during cleanup a failure to delete one document does not abort the
\* run and does not stop the deletion of the remaining documents: cleanup
\* attempts every document of the content root once, and the run then ends
\* done.
C22_CleanupIsBestEffort ==
    [][ /\ (rpc # "cleanup" /\ rpc' = "cleanup") =>
               (todo' = DOMAIN articles_dir /\ tried' = <<>>)
        /\ (rpc = "cleanup" /\ rpc' # "killed" /\ tried' # tried) =>
               /\ \E name \in todo :
                      /\ NotIn(tried, name)
                      /\ tried' = Append(tried, name)
                      /\ todo' = todo \ {name}
                      /\ articles_dir' \in {articles_dir,
                                            Unlink(articles_dir, name)}
               /\ rpc' = "cleanup"
        /\ rpc = "cleanup" => rpc' \in {"cleanup", "idle", "killed"}
        /\ (rpc = "cleanup" /\ rpc' = "idle") =>
               /\ Range(tried) = DirtySet \cup Range(skipped)
               /\ DOMAIN articles_dir = Range(tried) \ deleted
      ]_vars

\* the unlink of a.md failed, b.md was deleted after it, and main() returned
C22_Witness ==
    /\ rpc = "idle"
    /\ wrote
    /\ tried = <<"a.md", "b.md">>
    /\ deleted = {"b.md"}
    /\ DOMAIN articles_dir = {"a.md"}

\* main() has returned: the run ended done
RunDone == rpc = "idle" /\ dpc = "done"

\* C23: at the start of every run that follows a run ended done, the content
\* root contains no documents.
C23_RootStartsEmpty == RunDone => articles_dir = EmptyMap

\* the documents detect_article_deltas has classified in this run
Classified == Range(added) \cup Range(updated) \cup Range(skipped)

\* C24: in every run, each document that delta detection classifies and the
\* uploader uploads was materialized from a record fetched in that same run:
\* no document left over from an earlier run is classified or uploaded.
\* Stated for the runs in which no request and no save of the scraper failed.
C24_OnlyThisRunsDocuments ==
    (~fetch_failed /\ ~save_failed) =>
        /\ Classified \subseteq saved
        /\ handed \subseteq saved

\* C25: the delta-detection step never fails: on every content root and every
\* hash record file that completed, failed or killed runs can leave,
\* detect_article_deltas returns a classification instead of raising.
\* Stated for the runs in which no request and no save of the scraper failed.
C25_DetectNeverRaises ==
    (rpc = "detect" /\ ~fetch_failed /\ ~save_failed) =>
        dpc \in {"idle", "loop", "done"}

\* C26: after a run ends failed the scheduling loop is still alive: the
\* failure is logged and a run is started at the next scheduled tick; no
\* failure of a run ends the process that holds the loop.
C26_LoopSurvivesFailedRun == rpc # "crashed"

\* C27: if a run completes with upload, hash-record write and cleanup all
\* successful and the source then serves exactly the same records, the next
\* run classifies every document as skipped, does not invoke the uploader and
\* does not rewrite the hash record; this repeats for every further run while
\* the source stays unchanged.
C27_UnchangedSourceShortCircuits ==
    (settled /\ ~fetch_failed) =>
        /\ (rpc = "detect" /\ dpc = "done") =>
               /\ NothingToUpload
               /\ Range(skipped) = DOMAIN articles_dir
        /\ rpc \notin {"idle", "crashed", "killed"} =>
               /\ uploader_calls = 0
               /\ ~wrote
               /\ hash_record = rec0

\* C28: when two records with different ids in one fetch result have titles
\* that map to the same slug, materialization keeps both: afterwards the
\* output directory holds one document per record, and no record's document
\* has been overwritten by another's.
C28_SlugCollisionKeepsBoth ==
    pc = "saved" =>
        /\ Cardinality(DOMAIN files) = Len(unique_results)
        /\ \A k \in 1..Len(written) :
               files[written[k].name] = article_to_markdown(written[k].article)

\* C29: in the path the scheduled run executes, a 429 or 5xx response is
\* retried inside the fetcher as in fetch_articles: the fetch of a run fails,
\* or returns the records of the earlier pages only, on such a response only
\* after the retry ceiling of GETs to that URL.
C29_TransientFailureIsRetried ==
    (spc \in {"save", "exited"} /\ fetch_failed
         /\ (last_status = 429 \/ Is5xx(last_status))) =>
        gets >= max_5xx_retries

\* C30: when the caller supplies a minimum-records threshold and fewer
\* records than that were collected when pagination ends, the fetch fails
\* with an InsufficientData error instead of returning the short result;
\* stated for every threshold min_articles a caller can ask of the records
\* served.
C30_ShortResultFails ==
    \A min_articles \in 1..MaxServed :
        HasReturned => Len(unique_results) >= min_articles

\* C31: when a required configuration option is missing or blank the process
\* fails at startup, before any run step executes: no document is written,
\* delta detection does not run, and the failure is not reported as a failed
\* run.
C31_MissingConfigFailsAtStartup ==
    config_error =>
        /\ saved = {}
        /\ dpc = "idle"
        /\ rpc # "crashed"

\* C32: compute_hash is a function of the byte content of the file only.
\* When it has returned, its value is the SHA-256 hex digest of the whole
\* content, however many 8192-byte reads the content took, and the file was
\* read to its end with one read per started chunk and the read that finds
\* the end; "hello world" and the empty file give the reference digests; the
\* value does not depend on the name of the file, and two different contents
\* give two different digests.
C32_HashOfContentOnly ==
    /\ hpc = "done" =>
          /\ hexdigest = Sha256Digest(fbytes)
          /\ unread = <<>>
          /\ reads = (ByteLen(fbytes) + ChunkSize - 1) \div ChunkSize + 1
          /\ fbytes = HelloWorld =>
                hexdigest =
                  "b94d27b9934d3e08a52e52d7da7dabfac484efe37a5380ee9088f7ace2efcde9"
          /\ fbytes = <<>> =>
                hexdigest =
                  "e3b0c44298fc1c149afbf4c8996fb92427ae41e4649b934ca495991b7852b855"
    /\ \A c1 \in FileContents, c2 \in FileContents :
          (Sha256Digest(c1) = Sha256Digest(c2)) <=> (c1 = c2)

\* a file of one whole chunk and one more byte has been hashed in three reads
C32_Witness ==
    /\ hpc = "done"
    /\ fbytes = Concat(Run("a", ChunkSize), Run("b", 1))
    /\ reads = 3
    /\ hexdigest = Sha256Digest(fbytes)

\* the step received a 429 response that is not the one at the retry ceiling
Early429Step ==
    /\ pc = "get"
    /\ gets' = gets + 1
    /\ last_status' = 429
    /\ attempt + 1 < max_429_retries

\* C33: after each 429 response received before the retry ceiling the fetcher
\* issues the GET for the same URL again, after a sleep of exactly the seconds
\* that the Retry-After header of that response gives, 5 seconds when the
\* response has no such header.
C33_SleepsRetryAfterThenRetries ==
    [][ Early429Step =>
            /\ pc' = "get"
            /\ url' = url
            /\ slept' = IF last_retry_after'.present
                        THEN PyInt(last_retry_after'.text)
                        ELSE 5
      ]_vars

\* C34: when writing the hash record fails after a successful upload the run
\* ends failed without running cleanup, every document still in the content
\* root; and (the source being unchanged) the next run classifies the same
\* documents as added and as updated and calls the uploader again.
C34_WriteFailureIsRetried ==
    /\ (last_unwritten.set /\ rpc = "crashed" /\ uploader_calls = 1) =>
           /\ returncode = 0
           /\ ~wrote
           /\ tried = <<>>
           /\ deleted = {}
           /\ DOMAIN articles_dir = DirtySet \cup Range(skipped)
    /\ (last_unwritten.set /\ uploader_calls = 0) =>
           /\ dpc # "raised"
           /\ dpc = "done" =>
                 /\ Range(added) = last_unwritten.added
                 /\ Range(updated) = last_unwritten.updated
                 /\ rpc \in {"detect", "uploader"}

\* C35: within one call of _get_with_retries one attempt counter counts the
\* 429 and the 5xx responses alike and starts at 0 for every page URL: a
\* retried response of either kind adds one to it, a 5xx response before the
\* 5th retryable one is always retried, the call fails on the 5th retryable
\* response whatever the order of 429 and 5xx, no call receives more than 5
\* responses, and the call for the next page starts from 0 again.
C35_SharedCounterPerCall ==
    [][ /\ pc = "get" => (attempt = gets /\ gets < max_429_retries)
        /\ gets' <= max_429_retries
        /\ (RetryableStep /\ pc' = "get") => attempt' = attempt + 1
        /\ (RetryableStep /\ Is5xx(last_status') /\ gets' < max_5xx_retries) =>
               pc' = "get"
        /\ (RetryableStep /\ gets' = max_429_retries) => pc' = "raised"
        /\ (pc = "page" /\ pc' = "get") => (attempt' = 0 /\ gets' = 0)
      ]_vars

\* the call for the second page failed on its 5th retryable response, after
\* responses of both kinds
C35_Witness ==
    /\ url = "u2"
    /\ results # <<>>
    /\ pc = "raised"
    /\ error = "TooMany429"
    /\ gets = max_429_retries
    /\ slept_5xx # NoSleep

\* the records of s that have an id, in the order of s
WithId(s) == SelectSeq(s, LAMBDA a : a.id # None)

\* the step parsed a page that holds a record without an id
NullIdPageStep ==
    /\ pc = "get"
    /\ servedAll'
    /\ \E k \in (Len(served) + 1)..Len(served') : served'[k].id = None

\* C36: every record returned by fetch_articles has a non-null id.  A page
\* that holds a record whose id is missing or null is parsed without raising
\* and the record is left out; the records returned are the ones that would be
\* returned had the source not served the records without id, in the same
\* order.
C36_NullIdOmitted ==
    [][ /\ NullIdPageStep =>
               /\ pc' = "page"
               /\ error' = None
               /\ \A i \in 1..Len(results') : results'[i].id # None
        /\ HasReturned' =>
               /\ \A i \in 1..Len(unique_results') : unique_results'[i].id # None
               /\ servedAll' =>
                      IsFirstOccurrences(unique_results', WithId(served'))
      ]_vars

\* a record without an id was served between two records with ids, and the
\* fetch returned the two
C36_Witness ==
    /\ pc = "returned"
    /\ servedAll
    /\ Len(served) = 3
    /\ served[1].id # None
    /\ served[2].id = None
    /\ served[3].id \notin {None, served[1].id}
    /\ unique_results = <<served[1], served[3]>>

\* the loop of uploader.main has taken a file and not yet counted its upload
UploadPending == upc = "files" /\ up_attempt > 1

\* the step ended the iteration of the uploader loop for one file
FileDoneStep ==
    /\ upc \in {"files", "attach"}
    /\ upc' = "files"
    /\ md_files # <<>>
    /\ md_files' = Tail(md_files)

\* C37: in the loop of the uploader every Markdown file is taken once and is
\* counted in exactly one of succeeded and failed, after at most 3 upload
\* attempts, and every succeeded file in exactly one of assigned and
\* assign_failed: after every file succeeded + failed = total_files and
\* assigned + assign_failed = succeeded; a file is attached to the vector
\* store only after its upload came back with the status "processed", that
\* is, was counted as succeeded.
C37_UploaderCounters ==
    [][ /\ upc \in {"files", "attach"} =>
               /\ up_attempt \in 1..MAX_RETRIES
               /\ total_files + Len(md_files) =
                      Len(find_markdown_files(articles_dir))
                          + (IF UploadPending \/ upc = "attach" THEN 1 ELSE 0)
               /\ succeeded + failed + (IF UploadPending THEN 1 ELSE 0) =
                      total_files
               /\ assigned + assign_failed + (IF upc = "attach" THEN 1 ELSE 0) =
                      succeeded
        /\ FileDoneStep =>
               /\ succeeded' + failed' = total_files'
               /\ assigned' + assign_failed' = succeeded'
               /\ (succeeded' + failed') - (succeeded + failed) =
                      (IF upc = "attach" THEN 0 ELSE 1)
               /\ (assigned' + assign_failed') - (assigned + assign_failed) =
                      (IF upc = "attach" THEN 1 ELSE 0)
        /\ (upc = "files" /\ upc' = "attach") =>
               /\ succeeded' = succeeded + 1
               /\ failed' = failed
        /\ (upc = "files" /\ upc' = "files" /\ stored' # stored) => FALSE
        /\ (upc \in {"files", "attach"} /\ upc' = "exited") =>
               /\ md_files = <<>>
               /\ succeeded + failed = Len(find_markdown_files(articles_dir))
               /\ assigned + assign_failed = succeeded
      ]_vars

\* the first file was uploaded and attached, and the second one is at its
\* third upload attempt
C37_Witness ==
    /\ upc = "files"
    /\ up_attempt = MAX_RETRIES
    /\ total_files = 2
    /\ succeeded = 1
    /\ failed = 0
    /\ assigned = 1
    /\ assign_failed = 0

====
